---- MODULE Spec2Model ----
(***************************************************************************)
(* A model of the EBD table -> graph -> PlantUML / DOT pipeline and of the *)
(* line wrapping of labels.                                                *)
(*                                                                         *)
(* Strings are sequences of one-character strings, so that keys, step      *)
(* numbers, result codes and notes share one type and can be compared.     *)
(* An Optional[str] is <<>> (None) or <<s>> (the string s).                *)
(***************************************************************************)
EXTENDS Integers, Sequences, FiniteSets, TLC

VARIABLES
    table,      \* the EbdTable handed to convert_table_to_graph: a sequence of rows
    pc,         \* "table" | "built" | "build_failed" | "rebuilt" | "rendered" |
                \* "render_failed" | "dotted" | "dot_failed" | "splitting" | "wrapped" |
                \* "note" | "normalized"
    node_keys,  \* DiGraph: the node keys in insertion order
    node_data,  \* DiGraph: key -> the "node" attribute
    edges,      \* DiGraph: the edges (source, target, kind) in insertion order
    append_node,\* DiGraph: key -> the "append_node" attribute (<<>> when not set)
    lca_calls,  \* the calls _mark_last_common_ancestors made: <<node, paths, common ancestor>>
    err,        \* the exception the last call raised, or NoError
    plantuml,   \* the block text the last rendering returned (a sequence of lines)
    rebuilt,    \* the graph a second convert_table_to_graph of the same table returned
    multi_step_instructions, \* EbdGraph.multi_step_instructions (<<>> when there are none)
    ranges,     \* what _compute_instruction_ranges returned to _convert_nodes_to_dot
    dot,        \* the DOT text convert_graph_to_dot returned (a sequence of declarations)
    label_text, \* add_line_breaks: the text it was called with
    max_line_length, \* add_line_breaks: the budget it was called with
    input_string,    \* _split_string: what is left to split
    parts,      \* _split_string: the parts split off so far
    split_index,\* _split_string: the split index of the last iteration
    wrapped,    \* what add_line_breaks returned
    input_note, \* the note _normalize_note_for_comparison was called with (<<>>: None)
    normalized_note \* what _normalize_note_for_comparison returned

\* the state of the graph builder and the block renderer
graph_vars == <<node_keys, node_data, edges, append_node>>
\* the state of the DOT renderer
dot_vars == <<multi_step_instructions, ranges, dot>>
\* the state of add_line_breaks
wrap_vars == <<label_text, max_line_length, input_string, parts, split_index, wrapped>>
\* the state of the note normalization
note_vars == <<input_note, normalized_note>>

vars == <<table, pc, node_keys, node_data, edges, append_node, lca_calls, err, plantuml, rebuilt,
          multi_step_instructions, ranges, dot, label_text, max_line_length, input_string, parts,
          split_index, wrapped, input_note, normalized_note>>

----------------------------------------------------------------------------
(* Optional values and literals *)

None == <<>>
Some(s) == <<s>>
IsNone(o) == o = <<>>
Val(o) == o[1]

Start == <<"S", "t", "a", "r", "t">>
Ende == <<"E", "n", "d", "e">>
Step1 == <<"1">>
Step2 == <<"2">>
Step3 == <<"3">>
Step4 == <<"4">>
A01 == <<"A", "0", "1">>
A02 == <<"A", "0", "2">>
A04 == <<"A", "0", "4">>
AStarStar == <<"A", "*", "*">>
NoteDone == <<"D", "o", "n", "e">>
NoteDoneDot == <<"D", "o", "n", "e", ".">>
NoteOther == <<"O", "t", "h", "e", "r">>

NoError == "none"
KeyError == "KeyError"
AssertOutcomeNotNone == "AssertionError: outcome_node is not None"
AssertPaths == "AssertionError: If indegree > 1, the number of paths should always be greater than 1 too."
AssertLcaNotStart == "AssertionError: Last common ancestor should always be at least the first decision node '1'."
AssertStartOneEdge == "AssertionError: Start node must have exactly one outgoing edge."
AssertStartToOne == "AssertionError: Start node must be connected to decision node '1'."
AssertTwoOutgoing == "AssertionError: A decision node must have exactly two outgoing edges (yes / no)."
AssertMultipleYes == "AssertionError: Multiple yes edges found"
AssertMultipleNo == "AssertionError: Multiple no edges found"
AssertUnknownEdge == "AssertionError: Unknown edge type"
AssertNoYes == "AssertionError: No yes edge found"
AssertNoNo == "AssertionError: No no edge found"
AttributeErrorNote == "AttributeError: 'NoneType' object has no attribute 'replace'"
ValueErrorNoAncestor == "ValueError: No common ancestor found."
ValueErrorUnknownNode == "ValueError: Unknown node type"
RecursionError == "RecursionError"
\* the named errors of models/errors/__init__.py
NotExactlyTwoOutgoingEdgesError == "NotExactlyTwoOutgoingEdgesError"
PathsNotGreaterThanOneError == "PathsNotGreaterThanOneError"
GraphTooComplexForPlantumlError == "GraphTooComplexForPlantumlError"
OutcomeCodeAmbiguousError == "OutcomeCodeAmbiguousError"

----------------------------------------------------------------------------
(* The table model: rows and sub rows *)

EbdCheckResult(result, subsequent) ==
    [result |-> result, subsequent_step_number |-> subsequent]

EbdTableSubRow(check_result, result_code, note) ==
    [check_result |-> check_result, result_code |-> result_code, note |-> note]

EbdTableRow(step_number, description, sub_rows) ==
    [step_number |-> step_number, description |-> description, sub_rows |-> sub_rows]

----------------------------------------------------------------------------
(* The graph model: nodes, their keys, edges *)

StartNode == [kind |-> "StartNode", step_number |-> None, question |-> 0,
              result_code |-> None, note |-> None]
EndNode == [kind |-> "EndNode", step_number |-> None, question |-> 0,
            result_code |-> None, note |-> None]
DecisionNode(step_number, question) ==
    [kind |-> "DecisionNode", step_number |-> Some(step_number), question |-> question,
     result_code |-> None, note |-> None]
OutcomeNode(result_code, note) ==
    [kind |-> "OutcomeNode", step_number |-> None, question |-> 0,
     result_code |-> result_code, note |-> note]

get_key(node) ==
    CASE node.kind = "StartNode" -> Start
      [] node.kind = "EndNode" -> Ende
      [] node.kind = "DecisionNode" -> Val(node.step_number)
      [] node.kind = "OutcomeNode" ->
            IF ~IsNone(node.result_code) THEN Val(node.result_code) ELSE Val(node.note)

EbdGraphEdge(source, target) == [kind |-> "EbdGraphEdge", source |-> source, target |-> target]
ToYesEdge(source, target) == [kind |-> "ToYesEdge", source |-> source, target |-> target]
ToNoEdge(source, target) == [kind |-> "ToNoEdge", source |-> source, target |-> target]

----------------------------------------------------------------------------
(* Graph builder *)

_convert_sub_row_to_outcome_node(sub_row) ==
    IF ~IsNone(sub_row.result_code)
    THEN Some(OutcomeNode(sub_row.result_code, sub_row.note))
    ELSE None

\* a variant that numbers every row's node "1" instead of taking the row's step number
_convert_row_to_decision_node_step_one(row) == DecisionNode(Step1, row.description)

_convert_row_to_decision_node(row) == DecisionNode(row.step_number, row.description)

\* a variant that ignores the decision and always makes a yes edge
_yes_no_edge_always_yes(decision, source, target) == ToYesEdge(source, target)

\* `if decision:` is taken for True only; False and None give the no edge
_yes_no_edge(decision, source, target) ==
    IF decision = "True" THEN ToYesEdge(source, target) ELSE ToNoEdge(source, target)

\* the nodes of rows r.. of the table, from sub row s of row r on (s = 0: the
\* row's own node comes first)
RECURSIVE NodesFrom(_, _, _, _)
NodesFrom(t, r, s, contains_ende) ==
    IF r > Len(t) THEN <<>>
    ELSE IF s = 0
    THEN <<_convert_row_to_decision_node(t[r])>> \o NodesFrom(t, r, 1, contains_ende)
    ELSE IF s > Len(t[r].sub_rows) THEN NodesFrom(t, r + 1, 0, contains_ende)
    ELSE LET sub_row == t[r].sub_rows[s]
             outcome_node == _convert_sub_row_to_outcome_node(sub_row)
             first_ende == /\ ~contains_ende
                           /\ sub_row.check_result.subsequent_step_number = Some(Ende)
         IN  (IF ~IsNone(outcome_node) THEN <<Val(outcome_node)>> ELSE <<>>)
             \o (IF first_ende THEN <<EndNode>> ELSE <<>>)
             \o NodesFrom(t, r, s + 1, contains_ende \/ first_ende)

get_all_nodes(t) == <<StartNode>> \o NodesFrom(t, 1, 0, FALSE)

\* {node.get_key(): node for node in ...}: the last node of a key wins
NodesByKey(nodes) ==
    [k \in {get_key(nodes[i]) : i \in 1..Len(nodes)} |->
        LET hits == {i \in 1..Len(nodes) : get_key(nodes[i]) = k}
        IN  nodes[CHOOSE i \in hits : \A j \in hits : j <= i]]

StartEdgeTarget(t) == Step1

\* the loop of get_all_edges from sub row s of row r on: `result` with the edges of
\* the remaining sub rows appended, or the first error on the way
RECURSIVE EdgesFrom(_, _, _, _, _)
EdgesFrom(t, nodes, r, s, result) ==
    IF r > Len(t) THEN [err |-> NoError, edges |-> result]
    ELSE IF s > Len(t[r].sub_rows) THEN EdgesFrom(t, nodes, r + 1, 1, result)
    ELSE LET sub_row == t[r].sub_rows[s]
             decision_node == _convert_row_to_decision_node(t[r])
             subsequent == sub_row.check_result.subsequent_step_number
         IN  IF ~IsNone(subsequent)
             THEN IF Val(subsequent) \notin DOMAIN nodes
                  THEN [err |-> KeyError, edges |-> <<>>]
                  ELSE EdgesFrom(t, nodes, r, s + 1,
                         Append(result, _yes_no_edge(sub_row.check_result.result,
                                                     decision_node, nodes[Val(subsequent)])))
             ELSE IF IsNone(_convert_sub_row_to_outcome_node(sub_row))
             THEN [err |-> AssertOutcomeNotNone, edges |-> <<>>]
             ELSE EdgesFrom(t, nodes, r, s + 1,
                    Append(result, _yes_no_edge(sub_row.check_result.result, decision_node,
                       nodes[Val(Val(_convert_sub_row_to_outcome_node(sub_row)).result_code)])))

get_all_edges(t) ==
    LET nodes == NodesByKey(get_all_nodes(t))
    IN  IF StartEdgeTarget(t) \notin DOMAIN nodes
        THEN [err |-> KeyError, edges |-> <<>>]
        ELSE EdgesFrom(t, nodes, 1, 1, <<EbdGraphEdge(nodes[Start], nodes[StartEdgeTarget(t)])>>)

----------------------------------------------------------------------------
(* networkx.DiGraph as the builder fills it *)

\* the elements of s at the positions in idx, in order
RECURSIVE Pick(_, _, _)
Pick(s, idx, i) ==
    IF i > Len(s) THEN <<>>
    ELSE (IF i \in idx THEN <<s[i]>> ELSE <<>>) \o Pick(s, idx, i + 1)

FirstOccurrences(s) == {i \in 1..Len(s) : \A j \in 1..(i - 1) : s[j] # s[i]}
LastOccurrence(s, x) ==
    LET hits == {i \in 1..Len(s) : s[i] = x}
    IN  CHOOSE i \in hits : \A j \in hits : j <= i

\* add_nodes_from: a key keeps the position of its first insertion
DiGraphNodeKeys(nodes) ==
    LET keys == [i \in 1..Len(nodes) |-> get_key(nodes[i])]
    IN  Pick(keys, FirstOccurrences(keys), 1)

\* add_nodes_from: and the attributes of its last insertion
DiGraphNodeData(nodes) == NodesByKey(nodes)

\* a variant that keeps one edge per source key, the first one inserted
DiGraphEdgesBySource(edge_list) ==
    LET sources == [i \in 1..Len(edge_list) |-> get_key(edge_list[i].source)]
        plain == [i \in 1..Len(edge_list) |->
                    [source |-> sources[i], target |-> get_key(edge_list[i].target),
                     kind |-> edge_list[i].kind]]
    IN  Pick(plain, FirstOccurrences(sources), 1)

\* add_edges_from: one edge per (source key, target key); a pair keeps the position of
\* its first insertion and the "edge" attribute of its last
DiGraphEdges(edge_list) ==
    LET pairs == [i \in 1..Len(edge_list) |->
                    <<get_key(edge_list[i].source), get_key(edge_list[i].target)>>]
        merged == [i \in 1..Len(edge_list) |->
                    [source |-> pairs[i][1], target |-> pairs[i][2],
                     kind |-> edge_list[LastOccurrence(pairs, pairs[i])].kind]]
    IN  Pick(merged, FirstOccurrences(pairs), 1)

in_degree(es, node) == Cardinality({i \in 1..Len(es) : es[i].target = node})
out_degree(es, node) == Cardinality({i \in 1..Len(es) : es[i].source = node})
\* graph[node]: the out-edges of node in adjacency order
OutEdges(es, node) == SelectSeq(es, LAMBDA e : e.source = node)

\* networkx.all_simple_paths(graph, source, target): depth-first, children in adjacency
\* order; `visited` is the path walked so far
RECURSIVE PathsVia(_, _, _, _)
PathsVia(es, visited, children, target) ==
    IF children = <<>> THEN <<>>
    ELSE LET child == Head(children).target
             here == IF \E i \in 1..Len(visited) : visited[i] = child THEN <<>>
                     ELSE IF child = target THEN <<Append(visited, child)>>
                     ELSE PathsVia(es, Append(visited, child), OutEdges(es, child), target)
         IN  here \o PathsVia(es, visited, Tail(children), target)

all_simple_paths(es, source, target) == PathsVia(es, <<source>>, OutEdges(es, source), target)

----------------------------------------------------------------------------
(* Topology analysis *)

InPath(node, path) == \E i \in 1..Len(path) : path[i] = node

\* the first node, walking `reference_path` backwards from position i, that is in
\* every path of `paths`
\* a variant that walks the reference path from its front: the first common node
WalkFront(reference_path, i, paths) ==
    LET common == {k \in 1..Len(reference_path) :
                      \A p \in 1..Len(paths) : InPath(reference_path[k], paths[p])}
    IN  IF common = {} THEN [err |-> ValueErrorNoAncestor, node |-> None]
        ELSE [err |-> NoError,
              node |-> Some(reference_path[CHOOSE k \in common : \A l \in common : k <= l])]

RECURSIVE WalkBack(_, _, _)
WalkBack(reference_path, i, paths) ==
    IF i = 0 THEN [err |-> ValueErrorNoAncestor, node |-> None]
    ELSE IF \A p \in 1..Len(paths) : InPath(reference_path[i], paths[p])
    THEN [err |-> NoError, node |-> Some(reference_path[i])]
    ELSE WalkBack(reference_path, i - 1, paths)

\* paths.pop() takes the last path as the reference; reference_path.pop() drops the target
\* a variant that takes the first path as the reference but still drops the last one
ReferencePathFirst(paths) == paths[1]

ReferencePath(paths) == paths[Len(paths)]

\* a variant that returns the predecessor of the target on the reference path without
\* looking at the other paths
_find_last_common_ancestor_parent(paths) ==
    LET ref == ReferencePath(paths)
    IN  [err |-> NoError, node |-> Some(ref[Len(ref) - 1])]

_find_last_common_ancestor(paths) ==
    LET ref == ReferencePath(paths)
        reference_path == SubSeq(ref, 1, Len(ref) - 1)
        others == SubSeq(paths, 1, Len(paths) - 1)
    IN  WalkBack(reference_path, Len(reference_path), others)

\* graph.nodes[common_ancestor]["append_node"] = node
Annotate(marks, common_ancestor, node) == [marks EXCEPT ![common_ancestor] = Some(node)]

\* the loop of _mark_last_common_ancestors from the i-th node on; `calls` collects
\* what _find_last_common_ancestor was given and returned
RECURSIVE MarkFrom(_, _, _, _, _)
MarkFrom(keys, es, marks, calls, i) ==
    IF i > Len(keys) THEN [err |-> NoError, marks |-> marks, calls |-> calls]
    ELSE LET node == keys[i]
         IN  IF in_degree(es, node) <= 1 THEN MarkFrom(keys, es, marks, calls, i + 1)
             ELSE LET paths == all_simple_paths(es, Start, node)
                  IN  IF ~(Len(paths) > 1)
                      THEN [err |-> AssertPaths, marks |-> marks, calls |-> calls]
                      ELSE LET lca == _find_last_common_ancestor(paths)
                               called == Append(calls, <<node, paths, lca.node>>)
                           IN  IF lca.err # NoError
                               THEN [err |-> lca.err, marks |-> marks, calls |-> called]
                               ELSE IF Val(lca.node) = Start
                               THEN [err |-> AssertLcaNotStart, marks |-> marks, calls |-> called]
                               ELSE MarkFrom(keys, es, Annotate(marks, Val(lca.node), node),
                                             called, i + 1)

_mark_last_common_ancestors(keys, es, marks) == MarkFrom(keys, es, marks, <<>>, 1)

----------------------------------------------------------------------------
(* Block renderer *)

\* the deepest nesting of _convert_node_to_plantuml calls the interpreter allows
MaxDepth == 12

\* a line of the block text; `node` is the key of the node whose conversion wrote it
Line(indent, tag, text, node) == [indent |-> indent, tag |-> tag, text |-> text, node |-> node]

Ok(text) == [err |-> NoError, text |-> text]
Raise(e) == [err |-> e, text |-> <<>>]

\* _get_yes_no_edges: the loop over graph[node] from the i-th out-edge on
RECURSIVE YesNoFrom(_, _, _, _)
YesNoFrom(out, i, yes_edge, no_edge) ==
    IF i > Len(out)
    THEN IF IsNone(yes_edge) THEN [err |-> AssertNoYes, yes |-> None, no |-> None]
         ELSE IF IsNone(no_edge) THEN [err |-> AssertNoNo, yes |-> None, no |-> None]
         ELSE [err |-> NoError, yes |-> yes_edge, no |-> no_edge]
    ELSE CASE out[i].kind = "ToYesEdge" ->
                IF ~IsNone(yes_edge) THEN [err |-> AssertMultipleYes, yes |-> None, no |-> None]
                ELSE YesNoFrom(out, i + 1, Some(out[i]), no_edge)
           [] out[i].kind = "ToNoEdge" ->
                IF ~IsNone(no_edge) THEN [err |-> AssertMultipleNo, yes |-> None, no |-> None]
                ELSE YesNoFrom(out, i + 1, yes_edge, Some(out[i]))
           [] OTHER -> [err |-> AssertUnknownEdge, yes |-> None, no |-> None]

_get_yes_no_edges(g, node) == YesNoFrom(OutEdges(g.edges, node), 1, None, None)

_convert_end_node_to_plantuml(g, node, indent) == Ok(<<Line(indent, "end", <<>>, node)>>)

_convert_outcome_node_to_plantuml(g, node, indent) ==
    LET outcome_node == g.data[node]
    IN  IF IsNone(outcome_node.note) THEN Raise(AttributeErrorNote)
        ELSE Ok(<<Line(indent, ":", Val(outcome_node.result_code), node),
                  Line(indent, "note left", <<>>, node),
                  Line(indent + 1, "note", Val(outcome_node.note), node),
                  Line(indent, "endnote", <<>>, node),
                  Line(indent, "kill", <<>>, node)>>)

\* what a decision node does when its out-degree is not 2
OutDegreeCheck(g, node) == IF out_degree(g.edges, node) = 2 THEN NoError ELSE AssertTwoOutgoing

SkippedAboveTwo(g, node, appendix) == in_degree(g.edges, node) > 2 /\ ~appendix

\* does a node reached through an edge, not as the node appended to its LCA, write nothing
Skipped(g, node, appendix) == in_degree(g.edges, node) > 1 /\ ~appendix

RECURSIVE _convert_node_to_plantuml(_, _, _, _, _)
_convert_decision_node_to_plantuml(g, node, indent, depth) ==
    LET decision_node == g.data[node]
        degree == OutDegreeCheck(g, node)
        yn == _get_yes_no_edges(g, node)
    IN  IF degree # NoError THEN Raise(degree)
        ELSE IF yn.err # NoError THEN Raise(yn.err)
        ELSE LET yes == _convert_node_to_plantuml(g, Val(yn.yes).target, indent + 1, FALSE, depth + 1)
             IN  IF yes.err # NoError THEN yes
                 ELSE LET no == _convert_node_to_plantuml(g, Val(yn.no).target, indent + 1, FALSE, depth + 1)
                      IN  IF no.err # NoError THEN no
                          ELSE LET block == <<Line(indent, "if", <<>>, node)>> \o yes.text
                                            \o <<Line(indent, "else", <<>>, node)>> \o no.text
                                            \o <<Line(indent, "endif", <<>>, node)>>
                               IN  IF IsNone(g.marks[node]) THEN Ok(block)
                                   ELSE LET app == _convert_node_to_plantuml(
                                                      g, Val(g.marks[node]), indent, TRUE, depth + 1)
                                        IN  IF app.err # NoError THEN app
                                            ELSE Ok(block \o app.text)

_convert_node_to_plantuml(g, node, indent, appendix, depth) ==
    IF depth > MaxDepth THEN Raise(RecursionError)
    ELSE IF Skipped(g, node, appendix) THEN Ok(<<>>)
    ELSE CASE g.data[node].kind = "DecisionNode" ->
                _convert_decision_node_to_plantuml(g, node, indent, depth)
           [] g.data[node].kind = "OutcomeNode" -> _convert_outcome_node_to_plantuml(g, node, indent)
           [] g.data[node].kind = "EndNode" -> _convert_end_node_to_plantuml(g, node, indent)
           \* the message of the ValueError reads graph[node]['node'], which is a KeyError
           [] OTHER -> Raise(KeyError)

\* convert_graph_to_plantuml: the annotations it leaves on the graph, and what it
\* returns or raises
convert_graph_to_plantuml(g) ==
    LET marked == _mark_last_common_ancestors(g.keys, g.edges, g.marks)
        g2 == [g EXCEPT !.marks = marked.marks]
        start_out == OutEdges(g.edges, Start)
        Failed(e) == [err |-> e, text |-> <<>>, marks |-> marked.marks, calls |-> marked.calls]
    IN  IF marked.err # NoError THEN Failed(marked.err)
        ELSE IF Len(start_out) # 1 THEN Failed(AssertStartOneEdge)
        ELSE IF start_out[1].target # Step1 THEN Failed(AssertStartToOne)
        ELSE LET body == _convert_node_to_plantuml(g2, Step1, 0, FALSE, 1)
             IN  IF body.err # NoError THEN Failed(body.err)
                 ELSE [err |-> NoError, marks |-> marked.marks, calls |-> marked.calls,
                       text |-> <<Line(0, "@startuml", <<>>, Start)>> \o body.text
                                \o <<Line(0, "@enduml", <<>>, Start)>>]

----------------------------------------------------------------------------
(* graphviz.py: the DOT renderer *)

Digits == <<"0", "1", "2", "3", "4", "5", "6", "7", "8", "9">>
IsDigit(c) == \E d \in 1..Len(Digits) : Digits[d] = c
DigitValue(c) == (CHOOSE d \in 1..Len(Digits) : Digits[d] = c) - 1

\* int(s) raises ValueError unless s is a decimal literal (signs, blanks and
\* underscores do not occur in step numbers)
IsIntLiteral(s) == s # <<>> /\ \A i \in 1..Len(s) : IsDigit(s[i])

RECURSIVE int(_)
int(s) == IF s = <<>> THEN 0 ELSE 10 * int(SubSeq(s, 1, Len(s) - 1)) + DigitValue(s[Len(s)])

ValueErrorInt == "ValueError: invalid literal for int() with base 10"

MultiStepInstruction(first_step_number_affected, instruction_text) ==
    [first_step_number_affected |-> first_step_number_affected,
     instruction_text |-> instruction_text]

_get_multi_step_instruction_node_key(instruction) ==
    <<"m", "s", "i", "_">> \o instruction.first_step_number_affected

\* hasattr(node_data, "step_number"): the nodes made from a row have one
_get_step_number_from_node(data, node) ==
    IF data[node].kind = "DecisionNode" THEN data[node].step_number ELSE None

\* _convert_nodes_to_dot: the set all_step_numbers
AllStepNumbers(keys, data) ==
    {Val(_get_step_number_from_node(data, keys[i])) :
        i \in {j \in 1..Len(keys) : ~IsNone(_get_step_number_from_node(data, keys[j]))}}

\* sorted(..., key=int(first_step_number_affected)) is stable: an instruction goes behind
\* those already placed whose key is not greater
SortedInsert(placed, inst) ==
    LET k == Cardinality({i \in 1..Len(placed) :
                 int(placed[i].first_step_number_affected) <= int(inst.first_step_number_affected)})
    IN  SubSeq(placed, 1, k) \o <<inst>> \o SubSeq(placed, k + 1, Len(placed))

RECURSIVE SortedFrom(_, _, _)
SortedFrom(instructions, i, placed) ==
    IF i > Len(instructions) THEN placed
    ELSE SortedFrom(instructions, i + 1, SortedInsert(placed, instructions[i]))

sorted_instructions(instructions) == SortedFrom(instructions, 1, <<>>)

\* the end step of the i-th sorted instruction: the highest step number of the graph from
\* its start up to, but not including, the start of the next instruction
EndStep(sorted, i, all_step_numbers) ==
    IF i + 1 <= Len(sorted)
    THEN LET start == int(sorted[i].first_step_number_affected)
             next_start == int(sorted[i + 1].first_step_number_affected)
             between == {step \in all_step_numbers : start <= int(step) /\ int(step) < next_start}
         IN  IF between = {} THEN None
             ELSE Some(CHOOSE step \in between : \A other \in between : int(other) <= int(step))
    ELSE None

\* returns [err, ranges]; a range is <<instruction, start_step, end_step>>
_compute_instruction_ranges(instructions, all_step_numbers) ==
    IF instructions = <<>> THEN [err |-> NoError, ranges |-> <<>>]
    ELSE IF \E i \in 1..Len(instructions) :
                ~IsIntLiteral(instructions[i].first_step_number_affected)
    THEN [err |-> ValueErrorInt, ranges |-> <<>>]
    ELSE IF Len(instructions) > 1 /\ \E step \in all_step_numbers : ~IsIntLiteral(step)
    THEN [err |-> ValueErrorInt, ranges |-> <<>>]
    ELSE LET sorted == sorted_instructions(instructions)
         IN  [err |-> NoError,
              ranges |-> [i \in 1..Len(sorted) |->
                            <<sorted[i], sorted[i].first_step_number_affected,
                              EndStep(sorted, i, all_step_numbers)>>]]

\* returns [err, nodes]
_get_nodes_in_step_range(keys, data, start_step, end_step) ==
    LET step_of(node) == _get_step_number_from_node(data, node)
        in_range(node) ==
            /\ ~IsNone(step_of(node))
            /\ int(Val(step_of(node))) >= int(start_step)
            /\ (IsNone(end_step) \/ int(Val(step_of(node))) <= int(Val(end_step)))
    IN  IF \E i \in 1..Len(keys) : ~IsNone(step_of(keys[i])) /\ ~IsIntLiteral(Val(step_of(keys[i])))
        THEN [err |-> ValueErrorInt, nodes |-> <<>>]
        ELSE [err |-> NoError, nodes |-> SelectSeq(keys, in_range)]

\* a declaration of the DOT text: `cluster` is the subgraph it is written in (None: the
\* top level), `target` and the edge class in `label` are set for an edge
DotLine(tag, key, target, label, cluster) ==
    [tag |-> tag, key |-> key, target |-> target, label |-> label, cluster |-> cluster]

_convert_node_to_dot(data, node, cluster) ==
    DotLine("node", node, None, data[node].kind, cluster)

_convert_multi_step_instruction_to_dot(instruction, cluster) ==
    DotLine("node", _get_multi_step_instruction_node_key(instruction), None,
            "MultiStepInstruction", cluster)

\* returns [err, lines]
_convert_multi_step_instruction_cluster_to_dot(keys, data, instruction, start_step, end_step) ==
    LET node_key == _get_multi_step_instruction_node_key(instruction)
        cluster_name == <<"c", "l", "u", "s", "t", "e", "r", "_">> \o node_key
        nodes_in_range == _get_nodes_in_step_range(keys, data, start_step, end_step)
    IN  IF nodes_in_range.err # NoError THEN [err |-> nodes_in_range.err, lines |-> <<>>]
        ELSE [err |-> NoError,
              lines |-> <<DotLine("subgraph", cluster_name, None, "", None),
                          _convert_multi_step_instruction_to_dot(instruction, Some(cluster_name))>>
                        \o [i \in 1..Len(nodes_in_range.nodes) |->
                              _convert_node_to_dot(data, nodes_in_range.nodes[i], Some(cluster_name))]
                        \o <<DotLine("}", cluster_name, None, "", None)>>]

RECURSIVE Flatten(_)
Flatten(seqs) == IF seqs = <<>> THEN <<>> ELSE Head(seqs) \o Flatten(Tail(seqs))

\* returns [err, lines, ranges]
_convert_nodes_to_dot(g, instructions) ==
    LET computed == _compute_instruction_ranges(instructions, AllStepNumbers(g.keys, g.data))
        clusters == [i \in 1..Len(computed.ranges) |->
                       _convert_multi_step_instruction_cluster_to_dot(
                           g.keys, g.data, computed.ranges[i][1], computed.ranges[i][2],
                           computed.ranges[i][3])]
        in_range == [i \in 1..Len(computed.ranges) |->
                       _get_nodes_in_step_range(g.keys, g.data, computed.ranges[i][2],
                                                computed.ranges[i][3]).nodes]
        nodes_in_clusters == {in_range[i][j] : <<i, j>> \in
                                {x \in (1..Len(in_range)) \X (1..Len(g.keys)) :
                                    x[2] <= Len(in_range[x[1]])}}
        remaining == SelectSeq(g.keys, LAMBDA node : node \notin nodes_in_clusters)
    IN  IF computed.err # NoError THEN [err |-> computed.err, lines |-> <<>>, ranges |-> <<>>]
        ELSE IF \E i \in 1..Len(clusters) : clusters[i].err # NoError
        THEN [err |-> ValueErrorInt, lines |-> <<>>, ranges |-> computed.ranges]
        ELSE [err |-> NoError,
              lines |-> Flatten([i \in 1..Len(clusters) |-> clusters[i].lines])
                        \o [i \in 1..Len(remaining) |-> _convert_node_to_dot(g.data, remaining[i], None)],
              ranges |-> computed.ranges]

_convert_edge_to_dot(edge) == DotLine("edge", edge.source, Some(edge.target), edge.kind, None)

\* graph.edges lists the edges node by node, those of a node in adjacency order
_convert_edges_to_dot(g) ==
    LET listed == Flatten([i \in 1..Len(g.keys) |-> OutEdges(g.edges, g.keys[i])])
    IN  [i \in 1..Len(listed) |-> _convert_edge_to_dot(listed[i])]

\* returns [err, text, ranges]
convert_graph_to_dot(g, instructions) ==
    LET nodes == _convert_nodes_to_dot(g, instructions)
        has_start == \E i \in 1..Len(g.keys) : g.keys[i] = Start
    IN  IF nodes.err # NoError THEN [err |-> nodes.err, text |-> <<>>, ranges |-> nodes.ranges]
        ELSE IF has_start /\ Len(OutEdges(g.edges, Start)) # 1
        THEN [err |-> AssertStartOneEdge, text |-> <<>>, ranges |-> nodes.ranges]
        ELSE [err |-> NoError,
              text |-> <<DotLine("digraph", <<"D">>, None, "", None)>> \o nodes.lines
                       \o (IF has_start THEN _convert_edges_to_dot(g) ELSE <<>>)
                       \o <<DotLine("}", <<"D">>, None, "", None)>>,
              ranges |-> nodes.ranges]

----------------------------------------------------------------------------
(* utils.py: line wrapping *)

Space == " "
LineBreak == "\n"
Whitespace == {Space, LineBreak}

\* s[start:end] with 0-based indices, end exclusive
Slice(s, start, end) == SubSeq(s, start + 1, IF end > Len(s) THEN Len(s) ELSE end)

\* a variant that finds the first occurrence, as str.find does
find(s, ch, start, end) ==
    LET hits == {i \in start..(end - 1) : i < Len(s) /\ s[i + 1] = ch}
    IN  IF hits = {} THEN -1 ELSE CHOOSE i \in hits : \A j \in hits : i <= j

\* s.rfind(ch, start, end): the highest 0-based index in [start, end) that holds ch, or -1
rfind(s, ch, start, end) ==
    LET hits == {i \in start..(end - 1) : i < Len(s) /\ s[i + 1] = ch}
    IN  IF hits = {} THEN -1 ELSE CHOOSE i \in hits : \A j \in hits : j <= i

RECURSIVE rstrip(_)
rstrip(s) ==
    IF s # <<>> /\ s[Len(s)] \in Whitespace THEN rstrip(SubSeq(s, 1, Len(s) - 1)) ELSE s

RECURSIVE lstrip(_)
lstrip(s) == IF s # <<>> /\ Head(s) \in Whitespace THEN lstrip(Tail(s)) ELSE s

\* part.replace("\n", "")
RemoveLineBreaks(s) == SelectSeq(s, LAMBDA c : c # LineBreak)

\* a variant that leaves the blanks at the start of what is left
SplitIterationNoStrip(input, max_length) ==
    LET split_index_line_break == rfind(input, LineBreak, 0, (3 * max_length) \div 2)
        split_index_whitespace == rfind(input, Space, 0, max_length)
        index == IF split_index_line_break # -1 THEN split_index_line_break
                 ELSE IF split_index_whitespace # -1 THEN split_index_whitespace
                 ELSE max_length
        part == rstrip(Slice(input, 0, index))
    IN  [split_index |-> index,
         part |-> IF split_index_line_break # -1 THEN RemoveLineBreaks(part) ELSE part,
         rest |-> Slice(input, index, Len(input))]

\* a variant that prefers the last space before the budget to an existing line break
SplitIterationSpaceFirst(input, max_length) ==
    LET split_index_line_break == rfind(input, LineBreak, 0, (3 * max_length) \div 2)
        split_index_whitespace == rfind(input, Space, 0, max_length)
        index == IF split_index_whitespace # -1 THEN split_index_whitespace
                 ELSE IF split_index_line_break # -1 THEN split_index_line_break
                 ELSE max_length
        part == rstrip(Slice(input, 0, index))
    IN  [split_index |-> index,
         part |-> IF split_index_line_break # -1 THEN RemoveLineBreaks(part) ELSE part,
         rest |-> lstrip(Slice(input, index, Len(input)))]

\* one iteration of the while loop of _split_string: the split index, the part split off
\* and what is left
SplitIteration(input, max_length) ==
    LET split_index_line_break == rfind(input, LineBreak, 0, (3 * max_length) \div 2)
        split_index_whitespace == rfind(input, Space, 0, max_length)
        index == IF split_index_line_break # -1 THEN split_index_line_break
                 ELSE IF split_index_whitespace # -1 THEN split_index_whitespace
                 ELSE max_length
        part == rstrip(Slice(input, 0, index))
    IN  [split_index |-> index,
         part |-> IF split_index_line_break # -1 THEN RemoveLineBreaks(part) ELSE part,
         rest |-> lstrip(Slice(input, index, Len(input)))]

\* line_sep.join(parts), with "\n" as the separator
RECURSIVE Join(_)
Join(ps) ==
    IF ps = <<>> THEN <<>>
    ELSE IF Len(ps) = 1 THEN ps[1]
    ELSE ps[1] \o <<LineBreak>> \o Join(Tail(ps))

----------------------------------------------------------------------------
(* The tables the model is run on *)

\* the most rows of a table whose sub rows are drawn from SubRowsRich
MaxRowsRich == 1
\* the most rows of a table of yes/no rows numbered 1, 2, ...
MaxRowsPlain == 2

GoTo(result, step) == EbdTableSubRow(EbdCheckResult(result, Some(step)), None, None)
Outcome(result, code, note) == EbdTableSubRow(EbdCheckResult(result, None), Some(code), Some(note))

\* what a sub row can say besides its check result: <<subsequent step, code, note>>
SubRowsRich ==
    { <<Some(Step1), None, None>>, <<Some(Step2), None, None>>, <<Some(Ende), None, None>>,
      <<None, Some(A01), Some(NoteDone)>>, <<None, Some(A01), Some(NoteDoneDot)>>,
      <<None, Some(A01), Some(NoteOther)>>,
      <<None, None, Some(NoteDone)>>,               \* a note without a code
      <<Some(Step2), Some(A01), Some(NoteDone)>> }  \* a code and a subsequent step

SubRowOf(result, x) == EbdTableSubRow(EbdCheckResult(result, x[1]), x[2], x[3])

\* a row of such a table: its step number, the check results of its sub rows (one
\* non-branching sub row, or a yes and a no sub row in either order) and what they say
RichResults == {<<"None">>, <<"True", "False">>, <<"False", "True">>}
RichRows == {Step1, Step2} \X RichResults \X SubRowsRich \X SubRowsRich

RichRow(c) ==
    EbdTableRow(c[1], 0,
        IF Len(c[2]) = 1 THEN <<SubRowOf(c[2][1], c[3])>>
        ELSE <<SubRowOf(c[2][1], c[3]), SubRowOf(c[2][2], c[4])>>)

\* a non-branching check result names a subsequent step (EbdCheckResult rejects a result
\* of None without one, unittests/test_ebd_table_models.py:
\* test_subrow_not_both_must_be_null); its row has one sub row, so the second choice is
\* not used and is fixed
IsRichTable(f) ==
    \A i \in DOMAIN f : Len(f[i][2]) = 1 => (f[i][4] = f[i][3] /\ ~IsNone(f[i][3][1]))

PlainSteps == <<Step1, Step2, Step3, Step4>>
PlainStep(i) == IF i <= Len(PlainSteps) THEN PlainSteps[i] ELSE Step1

\* where a yes/no row can lead: a step, the end, or an outcome
PlainTarget(result, x) ==
    IF x \in {A01, A02} THEN Outcome(result, x, NoteDone) ELSE GoTo(result, x)

PlainTargets == {Step1, Step2, Step3, Ende, A01, A02}

PlainRow(i, yes, no) ==
    EbdTableRow(PlainStep(i), i, <<PlainTarget("True", yes), PlainTarget("False", no)>>)

\* unittests/examples.py: table_e0003
table_e0003 ==
    << EbdTableRow(Step1, 1, <<Outcome("False", A01, NoteDone), GoTo("True", Step2)>>),
       EbdTableRow(Step2, 2, <<Outcome("False", A02, NoteOther), GoTo("True", Ende)>>) >>

\* unittests/test_e0055.py: A** in steps 1 and 2 with different notes
table_e0055 ==
    << EbdTableRow(Step1, 1, <<Outcome("False", AStarStar, NoteDone), GoTo("True", Step2)>>),
       EbdTableRow(Step2, 2, <<Outcome("False", AStarStar, NoteOther), GoTo("True", Step3)>>),
       EbdTableRow(Step3, 3, <<Outcome("True", A01, NoteDone), Outcome("False", A04, NoteOther)>>) >>

\* Start -> 1, 1 -> 2, 1 -> 3, 2 -> 4, 3 -> 4: both branches of step 1 meet in step 4
table_diamond ==
    << PlainRow(1, Step2, Step3),
       EbdTableRow(Step2, 2, <<GoTo("True", Step4), Outcome("False", A01, NoteDone)>>),
       EbdTableRow(Step3, 3, <<GoTo("True", Step4), Outcome("False", A02, NoteDone)>>),
       EbdTableRow(Step4, 4, <<GoTo("True", Ende), Outcome("False", A04, NoteDone)>>) >>

\* models/errors/__init__.py, GraphTooComplexForPlantumlError: two nodes with indegree > 1
\* (A01 and A02) whose paths split at the same node (step 1)
table_too_complex ==
    << PlainRow(1, Step2, Step3), PlainRow(2, A01, A02), PlainRow(3, A01, A02) >>

\* unittests/table_with_transition_node.py: table_0594_partly, steps 270, 275, 280 as 1, 2, 3
table_0594_partly ==
    << EbdTableRow(Step1, 1, <<GoTo("True", Step2), GoTo("False", Step3)>>),
       EbdTableRow(Step2, 2, <<EbdTableSubRow(EbdCheckResult("None", Some(Step3)), None,
                                               Some(NoteDone))>>),
       EbdTableRow(Step3, 3, <<Outcome("False", A02, NoteOther), Outcome("True", A01, NoteDone)>>) >>

\* two rows with the step number 1, followed by the row of step 2
table_duplicate_step ==
    << EbdTableRow(Step1, 1, <<Outcome("False", A01, NoteDone), GoTo("True", Step2)>>),
       EbdTableRow(Step1, 2, <<Outcome("False", A02, NoteOther), GoTo("True", Step2)>>),
       EbdTableRow(Step2, 3, <<Outcome("False", A04, NoteOther), GoTo("True", Ende)>>) >>

\* Start -> 1, 1 -> 2, 1 -> 3, 2 -> 3, 3 -> 2: steps 2 and 3 lie on a directed cycle and
\* each has two simple paths from Start
table_cycle ==
    << PlainRow(1, Step2, Step3), PlainRow(2, Step3, A01), PlainRow(3, Step2, A02) >>

Examples ==
    {table_e0003, table_e0055, table_diamond, table_too_complex, table_0594_partly,
     table_duplicate_step, table_cycle}

----------------------------------------------------------------------------
(* The pipeline *)

NoGraph == [keys |-> <<>>, data |-> <<>>, edges |-> <<>>, marks |-> <<>>]

Graph == [keys |-> node_keys, data |-> node_data, edges |-> edges, marks |-> append_node]

\* no graph has been built yet
NoGraphYet ==
    /\ node_keys = <<>>
    /\ node_data = <<>>
    /\ edges = <<>>
    /\ append_node = <<>>
    /\ lca_calls = <<>>
    /\ plantuml = <<>>
    /\ rebuilt = NoGraph

\* the DOT renderer has not been called; convert_table_to_graph sets no instructions
NoDotYet ==
    /\ multi_step_instructions = <<>>
    /\ ranges = <<>>
    /\ dot = <<>>

\* add_line_breaks is not being called
NoWrap ==
    /\ label_text = <<>>
    /\ max_line_length = 0
    /\ input_string = <<>>
    /\ parts = <<>>
    /\ split_index = 0
    /\ wrapped = <<>>

\* _normalize_note_for_comparison is not being called
NoNote ==
    /\ input_note = None
    /\ normalized_note = None

Init ==
    /\ \/ \E n \in 1..MaxRowsRich : \E f \in [1..n -> RichRows] :
            /\ IsRichTable(f)
            /\ table = [i \in 1..n |-> RichRow(f[i])]
       \/ \E n \in 1..MaxRowsPlain : \E f \in [1..n -> PlainTargets \X PlainTargets] :
            table = [i \in 1..n |-> PlainRow(i, f[i][1], f[i][2])]
       \/ table \in Examples
    /\ pc = "table"
    /\ err = NoError
    /\ NoGraphYet
    /\ NoDotYet
    /\ NoWrap
    /\ NoNote

\* the DiGraph convert_table_to_digraph fills from the node list and the edge list
DiGraphOf(nodes, edge_list) ==
    LET keys == DiGraphNodeKeys(nodes)
    IN  [keys |-> keys,
         data |-> DiGraphNodeData(nodes),
         edges |-> DiGraphEdges(edge_list),
         marks |-> [k \in {keys[i] : i \in 1..Len(keys)} |-> None]]

\* convert_table_to_digraph: the graph, or the error get_all_edges raised
convert_table_to_digraph(t) ==
    LET nodes == get_all_nodes(t)
        all_edges == get_all_edges(t)
    IN  IF all_edges.err # NoError THEN [err |-> all_edges.err, graph |-> NoGraph]
        ELSE [err |-> NoError, graph |-> DiGraphOf(nodes, all_edges.edges)]

ConvertTableToGraph ==
    /\ pc = "table"
    /\ \E built \in {convert_table_to_digraph(table)} :
           /\ pc' = IF built.err = NoError THEN "built" ELSE "build_failed"
           /\ err' = built.err
           /\ node_keys' = built.graph.keys
           /\ node_data' = built.graph.data
           /\ edges' = built.graph.edges
           /\ append_node' = built.graph.marks
    /\ UNCHANGED <<table, lca_calls, plantuml, rebuilt>>
    /\ UNCHANGED <<dot_vars, wrap_vars, note_vars>>

Reverse(s) == [i \in 1..Len(s) |-> s[Len(s) + 1 - i]]

\* the orders in which the node list and the edge list can reach the DiGraph: as the
\* lists are built, or the other way round
IterationOrders == {"forward", "reversed"}
InOrder(order, s) == IF order = "forward" THEN s ELSE Reverse(s)

\* a second convert_table_to_graph of the table already built, the iteration order of its
\* intermediate lists left open
ConvertTableToGraphAgain ==
    /\ pc = "built"
    /\ \E order \in IterationOrders :
           \E nodes \in {InOrder(order, get_all_nodes(table))} :
               \E all_edges \in {InOrder(order, get_all_edges(table).edges)} :
                   \E again \in {DiGraphOf(nodes, all_edges)} : rebuilt' = again
    /\ pc' = "rebuilt"
    /\ UNCHANGED <<table, graph_vars, lca_calls, err, plantuml>>
    /\ UNCHANGED <<dot_vars, wrap_vars, note_vars>>

ConvertGraphToPlantuml ==
    /\ pc = "built"
    /\ \E r \in {convert_graph_to_plantuml(Graph)} :
           /\ pc' = IF r.err = NoError THEN "rendered" ELSE "render_failed"
           /\ err' = r.err
           /\ append_node' = r.marks
           /\ lca_calls' = r.calls
           /\ plantuml' = r.text
    /\ UNCHANGED <<table, node_keys, node_data, edges, rebuilt>>
    /\ UNCHANGED <<dot_vars, wrap_vars, note_vars>>

ConvertGraphToDot ==
    /\ pc = "built"
    /\ \E r \in {convert_graph_to_dot(Graph, multi_step_instructions)} :
           /\ pc' = IF r.err = NoError THEN "dotted" ELSE "dot_failed"
           /\ err' = r.err
           /\ ranges' = r.ranges
           /\ dot' = r.text
    /\ UNCHANGED <<table, graph_vars, lca_calls, plantuml, rebuilt, multi_step_instructions>>
    /\ UNCHANGED <<wrap_vars, note_vars>>

Next ==
    \/ ConvertTableToGraph
    \/ ConvertGraphToPlantuml
    \/ ConvertGraphToDot

Spec == Init /\ [][Next]_vars

\* the builder called twice on the same table
NextRebuild ==
    \/ ConvertTableToGraph
    \/ ConvertTableToGraphAgain

SpecRebuild == Init /\ [][NextRebuild]_vars

----------------------------------------------------------------------------
(* The DOT renderer on graphs with multi-step instructions *)

\* the most multi-step instructions of a graph
MaxInstructions == 3

\* the step numbers the decision nodes of such a graph are taken from (a step number
\* matches ^\d+\*?$), in the order of the rows
StepPool == <<Step1, Step2, <<"3", "*">>, <<"9">>, <<"1", "0">>>>
\* the steps the instructions start at
InstructionStarts == {Step2, <<"9">>, <<"1", "0">>}

\* a chain of decisions: yes leads to the next step (to the end from the last one), no
\* to the outcome A01
ChainNodes(steps) ==
    <<StartNode>> \o [i \in 1..Len(steps) |-> DecisionNode(steps[i], i)]
        \o <<OutcomeNode(Some(A01), Some(NoteDone)), EndNode>>

ChainEdges(steps) ==
    <<EbdGraphEdge(StartNode, DecisionNode(steps[1], 1))>>
        \o Flatten([i \in 1..Len(steps) |->
              <<ToYesEdge(DecisionNode(steps[i], i),
                          IF i < Len(steps) THEN DecisionNode(steps[i + 1], i + 1) ELSE EndNode),
                ToNoEdge(DecisionNode(steps[i], i), OutcomeNode(Some(A01), Some(NoteDone)))>>])

InitDot ==
    /\ \E chosen \in (SUBSET (1..Len(StepPool))) \ {{}} :
          \E g \in {DiGraphOf(ChainNodes(Pick(StepPool, chosen, 1)),
                              ChainEdges(Pick(StepPool, chosen, 1)))} :
              /\ node_keys = g.keys
              /\ node_data = g.data
              /\ edges = g.edges
              /\ append_node = g.marks
    /\ \E n \in 0..MaxInstructions : \E f \in [1..n -> InstructionStarts] :
          /\ \A i, j \in 1..n : f[i] = f[j] => i = j
          /\ multi_step_instructions = [i \in 1..n |-> MultiStepInstruction(f[i], i)]
    /\ table = <<>>
    /\ pc = "built"
    /\ err = NoError
    /\ lca_calls = <<>>
    /\ plantuml = <<>>
    /\ rebuilt = NoGraph
    /\ ranges = <<>>
    /\ dot = <<>>
    /\ NoWrap
    /\ NoNote

NextDot == ConvertGraphToDot

SpecDot == InitDot /\ [][NextDot]_vars

----------------------------------------------------------------------------
(* add_line_breaks on its own *)

\* the longest text that is wrapped
MaxTextLen == 7
\* the largest budget a text is wrapped to
MaxLineLength == 3

Alphabet == {"a", Space, LineBreak}

InitWrap ==
    /\ \E n \in 0..MaxTextLen : label_text \in [1..n -> Alphabet]
    /\ max_line_length \in 1..MaxLineLength
    /\ input_string = label_text
    /\ parts = <<>>
    /\ split_index = 0
    /\ wrapped = <<>>
    /\ pc = "splitting"
    /\ table = <<>>
    /\ err = NoError
    /\ NoGraphYet
    /\ NoDotYet
    /\ NoNote

\* one iteration of the while loop of _split_string
SplitStep ==
    /\ pc = "splitting"
    /\ Len(input_string) > max_line_length
    /\ \E it \in {SplitIteration(input_string, max_line_length)} :
           /\ split_index' = it.split_index
           /\ parts' = Append(parts, it.part)
           /\ input_string' = it.rest
    /\ UNCHANGED <<pc, label_text, max_line_length, wrapped>>
    /\ UNCHANGED <<table, graph_vars, lca_calls, err, plantuml, rebuilt, dot_vars, note_vars>>

\* the loop is left: the rest, if any, is the last part, and add_line_breaks joins the parts
AddLineBreaksReturn ==
    /\ pc = "splitting"
    /\ Len(input_string) <= max_line_length
    /\ parts' = IF input_string # <<>> THEN Append(parts, input_string) ELSE parts
    /\ wrapped' = Join(parts')
    /\ pc' = "wrapped"
    /\ UNCHANGED <<label_text, max_line_length, input_string, split_index>>
    /\ UNCHANGED <<table, graph_vars, lca_calls, err, plantuml, rebuilt, dot_vars, note_vars>>

NextWrap == SplitStep \/ AddLineBreaksReturn

SpecWrap == InitWrap /\ [][NextWrap]_vars

----------------------------------------------------------------------------
(* What the claims speak about *)

\* convert_table_to_graph returned a graph
Built == pc \in {"built", "rebuilt", "rendered", "render_failed", "dotted", "dot_failed"}
\* convert_graph_to_plantuml returned or raised
RenderDone == pc \in {"rendered", "render_failed"}

SubRowsOf(t) == {<<r, s>> \in (1..Len(t)) \X (1..2) : s <= Len(t[r].sub_rows)}
StepNumbersOf(t) == {t[r].step_number : r \in 1..Len(t)}
NamesEnde(t) ==
    {x \in SubRowsOf(t) : t[x[1]].sub_rows[x[2]].check_result.subsequent_step_number = Some(Ende)}

\* every sub row names a subsequent step that a row defines (or the end), or else
\* carries an outcome code
Resolves(t) ==
    \A x \in SubRowsOf(t) :
        LET sub_row == t[x[1]].sub_rows[x[2]]
            subsequent == sub_row.check_result.subsequent_step_number
        IN  IF IsNone(subsequent) THEN ~IsNone(sub_row.result_code)
            ELSE Val(subsequent) \in StepNumbersOf(t) \cup {Ende}

\* the positions in the graph's node list that hold a node of the kind
PositionsOfKind(kind) == {i \in 1..Len(node_keys) : node_data[node_keys[i]].kind = kind}

C2_StartToFirstRow ==
    (pc # "table" /\ Resolves(table)) =>
        /\ Built
        /\ Len(OutEdges(edges, Start)) = 1
        /\ OutEdges(edges, Start)[1].target = table[1].step_number

\* the rows of the table are a yes/no row or a single non-branching row each, and no
\* two rows share a step number
RowsValid(t) ==
    /\ Cardinality(StepNumbersOf(t)) = Len(t)
    /\ \A r \in 1..Len(t) :
          LET results == [s \in 1..Len(t[r].sub_rows) |-> t[r].sub_rows[s].check_result.result]
          IN  results \in {<<"None">>, <<"True", "False">>, <<"False", "True">>}

KindsOut(node) == LET out == OutEdges(edges, node) IN [i \in 1..Len(out) |-> out[i].kind]

\* C3: in a graph built from a valid table the node of every yes/no row has exactly two
\* outgoing edges, one ToYes and one ToNo, and the node of every non-branching row has
\* exactly one, also when both sub rows of a row lead to the same node.
C3_OutDegrees ==
    (Built /\ RowsValid(table)) =>
        \A r \in 1..Len(table) :
            IF Len(table[r].sub_rows) = 2
            THEN KindsOut(table[r].step_number)
                    \in {<<"ToYesEdge", "ToNoEdge">>, <<"ToNoEdge", "ToYesEdge">>}
            ELSE Len(KindsOut(table[r].step_number)) = 1

DecisionNodes == {k \in DOMAIN node_data : node_data[k].kind = "DecisionNode"}
MergeNodes == {k \in DOMAIN node_data : in_degree(edges, k) > 1}

\* C4: block rendering of a graph in which a decision node does not have exactly two
\* outgoing edges fails with NotExactlyTwoOutgoingEdgesError and returns no text (here
\* for graphs without a node of indegree > 1, where the topology analysis has nothing
\* to object to and the rendering visits every node).
C4_NotExactlyTwoOutgoingEdges ==
    (RenderDone /\ MergeNodes = {} /\ \E k \in DecisionNodes : out_degree(edges, k) # 2) =>
        /\ pc = "render_failed"
        /\ err = NotExactlyTwoOutgoingEdgesError
        /\ plantuml = <<>>

\* the analysis looked at every node of indegree > 1
AnalysisComplete == {lca_calls[i][1] : i \in 1..Len(lca_calls)} = MergeNodes
SharedAncestor ==
    \E i, j \in 1..Len(lca_calls) :
        /\ lca_calls[i][1] # lca_calls[j][1]
        /\ lca_calls[i][3] = lca_calls[j][3]

\* C5: when two distinct nodes of indegree > 1 have the same last common ancestor,
\* block rendering fails with GraphTooComplexForPlantumlError and returns no text.
C5_TooComplex ==
    (RenderDone /\ AnalysisComplete /\ SharedAncestor) =>
        /\ pc = "render_failed"
        /\ err = GraphTooComplexForPlantumlError
        /\ plantuml = <<>>

\* the nodes a walk from `frontier` reaches without passing through `removed`
RECURSIVE ReachableWithout(_, _, _)
ReachableWithout(removed, seen, frontier) ==
    IF frontier = {} THEN seen
    ELSE LET next == {edges[i].target : i \in {j \in 1..Len(edges) : edges[j].source \in frontier}}
                        \ (seen \cup {removed})
         IN  ReachableWithout(removed, seen \cup next, next)

\* n lies on every directed path from Start to target
OnEveryPath(n, target) ==
    n # target /\ (n = Start \/ target \notin ReachableWithout(n, {Start}, {Start}))

PositionIn(path, n) == CHOOSE i \in 1..Len(path) : path[i] = n

\* C6: the last common ancestor computed for a node of indegree > 1 lies on every
\* simple path from Start to the node, is not the node itself, and on each of these
\* paths no other node that lies on all of them comes after it; the paths it is
\* computed from are simple paths, and a node is on all of them exactly if every
\* directed path from Start to the node passes through it. For the graph
\* Start -> 1, 1 -> 2, 1 -> 3, 2 -> 4, 3 -> 4 the ancestor of node 4 is node 1.
C6_NearestCommonAncestor ==
    /\ \A c \in 1..Len(lca_calls) :
          LET target == lca_calls[c][1]
              paths == lca_calls[c][2]
              lca == lca_calls[c][3]
              common == {n \in DOMAIN node_data \ {target} :
                            \A p \in 1..Len(paths) : InPath(n, paths[p])}
          IN  /\ ~IsNone(lca)
              /\ Val(lca) \in common
              /\ \A p \in 1..Len(paths) : \A n \in common :
                    PositionIn(paths[p], n) <= PositionIn(paths[p], Val(lca))
              /\ \A p \in 1..Len(paths) :
                    /\ paths[p][1] = Start /\ paths[p][Len(paths[p])] = target
                    /\ \A i, j \in 1..Len(paths[p]) : paths[p][i] = paths[p][j] => i = j
              /\ common = {n \in DOMAIN node_data : OnEveryPath(n, target)}
    /\ (RenderDone /\ table = table_diamond) =>
          \E c \in 1..Len(lca_calls) : lca_calls[c][1] = Step4 /\ lca_calls[c][3] = Some(Step1)

\* the analysis of the diamond has computed the ancestor of node 4 from its two paths
C6_Witness ==
    /\ RenderDone
    /\ table = table_diamond
    /\ \E c \in 1..Len(lca_calls) : lca_calls[c][1] = Step4 /\ Len(lca_calls[c][2]) = 2

\* C7: when a node has indegree > 1 but fewer than two simple paths lead to it from
\* Start, block rendering fails with PathsNotGreaterThanOneError and returns no text.
C7_PathsNotGreaterThanOne ==
    (RenderDone /\ \E k \in MergeNodes : Len(all_simple_paths(edges, Start, k)) < 2) =>
        /\ pc = "render_failed"
        /\ err = PathsNotGreaterThanOneError
        /\ plantuml = <<>>

\* the lines of the block text at which the rendering of a node begins
StartsOf(node) ==
    {i \in 1..Len(plantuml) : plantuml[i].node = node /\ plantuml[i].tag \in {"if", ":", "end"}}

EmittedOnceAfterAncestor(c) ==
    /\ Cardinality(StartsOf(lca_calls[c][1])) = 1
    /\ \A i \in StartsOf(lca_calls[c][1]) :
          /\ i > 1
          /\ plantuml[i - 1].tag = "endif"
          /\ plantuml[i - 1].node = Val(lca_calls[c][3])

\* C8: in a successful block rendering every node of indegree > 1 is written exactly
\* once, directly after the block (if ... endif) of its last common ancestor.
C8_SplicedOnce ==
    pc = "rendered" => \A c \in 1..Len(lca_calls) : EmittedOnceAfterAncestor(c)

\* a variant that removes one trailing punctuation character only
_normalize_note_once(note) ==
    IF IsNone(note) THEN None
    ELSE IF Val(note) # <<>> /\ Val(note)[Len(Val(note))] \in {".", "!", "?", ";", ":", ","}
    THEN Some(SubSeq(Val(note), 1, Len(Val(note)) - 1))
    ELSE note

\* trailing punctuation removed, as the builder is to compare notes
RECURSIVE _normalize_note_for_comparison(_)
_normalize_note_for_comparison(note) ==
    IF IsNone(note) THEN None
    ELSE IF Val(note) # <<>> /\ Val(note)[Len(Val(note))] \in {".", "!", "?", ";", ":", ","}
    THEN _normalize_note_for_comparison(Some(SubSeq(Val(note), 1, Len(Val(note)) - 1)))
    ELSE note

\* two sub rows carry the same outcome code
SameCode(t, x, y) ==
    /\ x # y
    /\ ~IsNone(t[x[1]].sub_rows[x[2]].result_code)
    /\ t[x[1]].sub_rows[x[2]].result_code = t[y[1]].sub_rows[y[2]].result_code

NotesAgree(t, x, y) ==
    _normalize_note_for_comparison(t[x[1]].sub_rows[x[2]].note)
        = _normalize_note_for_comparison(t[y[1]].sub_rows[y[2]].note)

OutcomesWithCode(code) ==
    {i \in 1..Len(node_keys) : /\ node_data[node_keys[i]].kind = "OutcomeNode"
                               /\ node_data[node_keys[i]].result_code = code}

\* C9: for a table that starts at step 1 and whose references resolve: two sub rows
\* with the same outcome code whose notes agree up to trailing punctuation are one
\* Outcome node of the built graph; two whose notes differ beyond that make the build
\* fail with the ambiguous-outcome-code error.
C9_SameCodeNotes ==
    (pc # "table" /\ Resolves(table) /\ table[1].step_number = Step1) =>
        \A x, y \in SubRowsOf(table) :
            SameCode(table, x, y) =>
                IF NotesAgree(table, x, y)
                THEN Built /\ Cardinality(OutcomesWithCode(table[x[1]].sub_rows[x[2]].result_code)) = 1
                ELSE pc = "build_failed" /\ err = OutcomeCodeAmbiguousError

\* C10: the table of E_0055, with the code A** in two rows with different notes, builds
\* a graph of 8 nodes and 7 edges with two Outcome nodes of code A**.
C10_TwoAStarStarNodes ==
    (pc # "table" /\ table = table_e0055) =>
        /\ Built
        /\ Cardinality(OutcomesWithCode(Some(AStarStar))) = 2
        /\ Len(node_keys) = 8
        /\ Len(edges) = 7

EdgePairs(es) == {<<es[i].source, es[i].target>> : i \in 1..Len(es)}
KeySet(keys) == {keys[i] : i \in 1..Len(keys)}

C12_GraphUnchanged ==
    [][(pc = "built" /\ pc' \in {"rendered", "render_failed", "dotted", "dot_failed"})
          => UNCHANGED graph_vars]_vars

\* C13: the table with row 1 (yes -> step 2, no -> A01) and row 2 (yes -> Ende, no ->
\* A02) builds a graph with the 6 nodes Start, 1, A01, 2, A02, Ende and 5 edges, and
\* both the block renderer and the DOT renderer return text for it without an error.
C13_E0003 ==
    (table = table_e0003 /\ pc # "table") =>
        /\ Built
        /\ node_keys = <<Start, Step1, A01, Step2, A02, Ende>>
        /\ Len(edges) = 5
        /\ RenderDone => (pc = "rendered" /\ err = NoError /\ plantuml # <<>>)
        /\ pc \in {"dotted", "dot_failed"} => (pc = "dotted" /\ err = NoError /\ dot # <<>>)

\* the DOT renderer has returned the text for table_e0003: every node and edge declared
C13_Witness ==
    /\ table = table_e0003
    /\ pc = "dotted"
    /\ Len(dot) = 6 + 5 + 2

----------------------------------------------------------------------------
(* Claims on the DOT renderer, checked under SpecDot *)

DotDone == pc \in {"dotted", "dot_failed"}

\* the start step of the i-th computed range, as a number
RangeStart(i) == int(ranges[i][2])

\* the name of the cluster drawn for the i-th computed range
ClusterName(i) ==
    <<"c", "l", "u", "s", "t", "e", "r", "_">> \o _get_multi_step_instruction_node_key(ranges[i][1])

\* the graph nodes that carry a step number
SteppedNodes ==
    {node_keys[i] : i \in {j \in 1..Len(node_keys) :
                              ~IsNone(_get_step_number_from_node(node_data, node_keys[j]))}}

\* the positions of the DOT text that declare the graph node `node`
NodeDeclarations(node) == {k \in 1..Len(dot) : dot[k].tag = "node" /\ dot[k].key = node}

\* the positions of the DOT text that declare the edge from `source` to `target`
EdgeDeclarations(source, target) ==
    {k \in 1..Len(dot) : dot[k].tag = "edge" /\ dot[k].key = source
                         /\ dot[k].target = Some(target)}

\* the clusters `node` is declared in
ClustersOf(node) == {dot[k].cluster : k \in NodeDeclarations(node)} \ {None}

\* C14: for n multi-step instructions the renderer computes exactly n ranges, ordered
\* numerically by the first step of their instruction whatever the order the
\* instructions were given in, and the last range is open-ended.
C14_OneRangePerInstruction ==
    DotDone =>
        /\ Len(ranges) = Len(multi_step_instructions)
        /\ \A i \in 1..Len(ranges) - 1 : RangeStart(i) < RangeStart(i + 1)
        /\ ranges # <<>> => IsNone(ranges[Len(ranges)][3])

\* C15: every range but the last has an end step, which is not below the start of its
\* instruction and is below the start of the next instruction, also when no node of the
\* graph has a step number between the two starts.
C15_NonLastRangeClosed ==
    pc = "dotted" =>
        \A i \in 1..Len(ranges) - 1 :
            /\ ~IsNone(ranges[i][3])
            /\ int(Val(ranges[i][3])) >= RangeStart(i)
            /\ int(Val(ranges[i][3])) < RangeStart(i + 1)

\* C16: a node with step number s is drawn in the cluster of instruction i exactly when
\* s is at least the first step of i and below the first step of the next instruction
\* (at least the first step of i for the last one); a node without a step number, or
\* with one below the first start, is drawn in no cluster.
C16_ClusterMembership ==
    pc = "dotted" =>
        /\ \A node \in SteppedNodes : \A i \in 1..Len(ranges) :
              LET s == int(Val(_get_step_number_from_node(node_data, node)))
              IN  (Some(ClusterName(i)) \in ClustersOf(node))
                    <=> /\ RangeStart(i) <= s
                        /\ i < Len(ranges) => s <= RangeStart(i + 1) - 1
        /\ \A k \in 1..Len(node_keys) :
              LET node == node_keys[k]
                  step == _get_step_number_from_node(node_data, node)
              IN  (IsNone(step) \/ (ranges # <<>> /\ int(Val(step)) < RangeStart(1)))
                     => ClustersOf(node) = {}

\* C17: the DOT text declares every node of the graph exactly once and every edge
\* exactly once; a node is declared in at most one cluster and then not again outside.
C17_DeclaredOnce ==
    pc = "dotted" =>
        /\ \A k \in 1..Len(node_keys) : Cardinality(NodeDeclarations(node_keys[k])) = 1
        /\ \A k \in 1..Len(edges) :
              Cardinality(EdgeDeclarations(edges[k].source, edges[k].target)) = 1

----------------------------------------------------------------------------
(* Claims on add_line_breaks, checked under SpecWrap *)

HasNoLineBreak(s) == \A i \in 1..Len(s) : s[i] # LineBreak

\* the 0-based positions before the budget at which the text still to be wrapped has a space
SpacesBeforeBudget ==
    {i \in 0..(max_line_length - 1) : i < Len(input_string) /\ input_string[i + 1] = Space}

\* C18: when a text without a line break that is longer than the budget is wrapped,
\* every break is placed at the last space before the budget; only when the text still
\* to be wrapped has no space before the budget is the break placed inside a word, and
\* then exactly at the budget.
C18_BreakAtLastSpace ==
    [][(/\ pc = "splitting" /\ pc' = "splitting"
        /\ Len(parts') = Len(parts) + 1
        /\ HasNoLineBreak(label_text)
        /\ Len(label_text) > max_line_length)
          => /\ HasNoLineBreak(input_string)
             /\ IF SpacesBeforeBudget = {}
                THEN split_index' = max_line_length
                ELSE /\ split_index' \in SpacesBeforeBudget
                     /\ \A j \in SpacesBeforeBudget : j <= split_index'
             /\ parts'[Len(parts')] = rstrip(Slice(input_string, 0, split_index'))
             /\ input_string' = lstrip(Slice(input_string, split_index', Len(input_string)))]_vars

\* a text without a line break has been wrapped into three or more parts: the first
\* break was placed at a space, the last one inside a word at the budget
C18_Witness ==
    /\ pc = "wrapped"
    /\ HasNoLineBreak(label_text)
    /\ Len(label_text) > max_line_length
    /\ Len(parts) >= 3
    /\ parts[1] # <<>>
    /\ Len(parts[1]) < max_line_length
    /\ label_text[Len(parts[1]) + 1] = Space
    /\ split_index = max_line_length

----------------------------------------------------------------------------
(* Claims on the failures of the builder, checked under Spec *)

HasDuplicateStep(t) == \E i, j \in 1..Len(t) : i # j /\ t[i].step_number = t[j].step_number

\* the sub rows that name a subsequent step no row of the table defines
UnresolvedReferences(t) ==
    {x \in SubRowsOf(t) :
        LET subsequent == t[x[1]].sub_rows[x[2]].check_result.subsequent_step_number
        IN  /\ ~IsNone(subsequent)
            /\ Val(subsequent) # Ende
            /\ Val(subsequent) \notin StepNumbersOf(t)}

\* C19: building a table in which two rows carry the same step number fails with the
\* duplicate-step error and returns no graph; the two rows are never merged into, or
\* overwritten as, a single node.
C19_DuplicateStepFails ==
    (pc # "table" /\ HasDuplicateStep(table)) =>
        /\ pc = "build_failed"
        /\ err # NoError
        /\ node_keys = <<>>

\* C20: building a table in which a sub row names a subsequent step that no row defines
\* fails with the named unresolved-step-reference error, an error of its own kind that
\* is not the bare KeyError of a dictionary lookup, and returns no graph.
C20_UnresolvedStepFails ==
    (pc # "table" /\ UnresolvedReferences(table) # {}) =>
        /\ pc = "build_failed"
        /\ err \notin {NoError, KeyError}
        /\ node_keys = <<>>

----------------------------------------------------------------------------
(* Claims on node keys and node variants, checked under Spec *)

\* two nodes made from the table are the same Outcome: same code, notes equal after
\* normalization
SameOutcome(a, b) ==
    /\ a.kind = "OutcomeNode" /\ b.kind = "OutcomeNode"
    /\ a.result_code = b.result_code
    /\ _normalize_note_for_comparison(a.note) = _normalize_note_for_comparison(b.note)

\* C21: the key of every node of a built graph follows the rule of its variant (Start,
\* Ende, the step number, the result code or else the note), and keys are unique: two
\* nodes made from the table that are not the same Outcome (same code, equal normalized
\* note) never end up as one vertex.
C21_KeysUnique ==
    Built =>
        /\ \A i \in 1..Len(node_keys) : node_keys[i] = get_key(node_data[node_keys[i]])
        /\ LET nodes == get_all_nodes(table)
           IN  \A i, j \in 1..Len(nodes) :
                   (i # j /\ get_key(nodes[i]) = get_key(nodes[j]))
                       => SameOutcome(nodes[i], nodes[j])

\* the row has exactly one sub row, and its check result is non-branching
IsTransitionRow(row) ==
    Len(row.sub_rows) = 1 /\ row.sub_rows[1].check_result.result = "None"

\* C22: a row with exactly one sub row whose check result is non-branching becomes a
\* Transition node with exactly one outgoing edge, to its subsequent step; every other
\* row becomes a Decision node. The three-row table 270 -> {275, 280}, 275 -> 280,
\* 280 -> {A02, A123} (steps 1, 2, 3 here) builds a graph of 6 nodes and 6 edges.
C22_TransitionRows ==
    (Built /\ ~HasDuplicateStep(table)) =>
        /\ \A r \in 1..Len(table) :
              LET step == table[r].step_number
              IN  IF IsTransitionRow(table[r])
                  THEN /\ node_data[step].kind = "TransitionNode"
                       /\ Len(OutEdges(edges, step)) = 1
                       /\ Some(OutEdges(edges, step)[1].target)
                             = table[r].sub_rows[1].check_result.subsequent_step_number
                  ELSE node_data[step].kind = "DecisionNode"
        /\ table = table_0594_partly => (Len(node_keys) = 6 /\ Len(edges) = 6)

----------------------------------------------------------------------------
(* The note normalization on its own *)

\* the longest note that is normalized
MaxNoteLen == 4

NoteAlphabet == {"a", " ", ".", "!", "?", ";", ":", ","}

InitNote ==
    /\ \/ input_note = None
       \/ \E n \in 0..MaxNoteLen : \E text \in [1..n -> NoteAlphabet] : input_note = Some(text)
    /\ normalized_note = None
    /\ pc = "note"
    /\ table = <<>>
    /\ err = NoError
    /\ NoGraphYet
    /\ NoDotYet
    /\ NoWrap

NormalizeNoteForComparison ==
    /\ pc = "note"
    /\ normalized_note' = _normalize_note_for_comparison(input_note)
    /\ pc' = "normalized"
    /\ UNCHANGED <<table, graph_vars, lca_calls, err, plantuml, rebuilt, dot_vars, wrap_vars,
                   input_note>>

NextNote == NormalizeNoteForComparison

SpecNote == InitNote /\ [][NextNote]_vars

TrailingPunctuation == {".", "!", "?", ";", ":", ","}

\* C23: the note normalization removes every trailing character of the set . ! ? ; : ,
\* (until the last character is not in the set) and leaves all other characters, also
\* punctuation inside the note, as they are; None stays None and the empty string stays
\* empty; normalizing twice gives the same as normalizing once.
C23_NormalizeNote ==
    pc = "normalized" =>
        /\ IsNone(input_note) <=> IsNone(normalized_note)
        /\ ~IsNone(input_note) =>
              LET text == Val(input_note)
                  kept == Val(normalized_note)
              IN  /\ Len(kept) <= Len(text)
                  /\ kept = SubSeq(text, 1, Len(kept))
                  /\ \A i \in (Len(kept) + 1)..Len(text) : text[i] \in TrailingPunctuation
                  /\ kept # <<>> => kept[Len(kept)] \notin TrailingPunctuation
                  /\ text = <<>> => kept = <<>>
        /\ _normalize_note_for_comparison(normalized_note) = normalized_note

\* a note with punctuation inside and two or more trailing punctuation characters has
\* been normalized
C23_Witness ==
    /\ pc = "normalized"
    /\ ~IsNone(input_note)
    /\ Len(Val(input_note)) >= Len(Val(normalized_note)) + 2
    /\ \E i \in 1..Len(Val(normalized_note)) : Val(normalized_note)[i] \in TrailingPunctuation

----------------------------------------------------------------------------
(* Further claims on add_line_breaks, checked under SpecWrap *)

\* the 0-based positions within the first 1.5 x budget characters at which the text
\* still to be wrapped has a line break
LineBreaksNearBudget ==
    {i \in 0..(((3 * max_line_length) \div 2) - 1) :
        i < Len(input_string) /\ input_string[i + 1] = LineBreak}

----------------------------------------------------------------------------
(* Claims on the resolution of references, checked under Spec *)

\* the sub rows that name the step of another row: a later one (forward) or an earlier
\* one (backward)
References(t) ==
    {x \in SubRowsOf(t) :
        \E r \in 1..Len(t) :
            /\ r # x[1]
            /\ t[x[1]].sub_rows[x[2]].check_result.subsequent_step_number = Some(t[r].step_number)}

\* C25: edges are made only after all nodes of the table exist: a sub row that names
\* the step of a later or of an earlier row resolves to the node of that row, and the
\* source and the target of every edge are the nodes stored in the graph under their
\* keys.
C25_ReferencesResolve ==
    Built =>
        /\ \A x \in References(table) : \A r \in 1..Len(table) :
              (/\ r # x[1]
               /\ table[x[1]].sub_rows[x[2]].check_result.subsequent_step_number
                     = Some(table[r].step_number)) =>
                  \E k \in 1..Len(edges) :
                      /\ edges[k].source = table[x[1]].step_number
                      /\ edges[k].target = table[r].step_number
                      /\ node_data[edges[k].target] = _convert_row_to_decision_node(table[r])
        /\ \A k \in 1..Len(get_all_edges(table).edges) :
              LET edge == get_all_edges(table).edges[k]
              IN  /\ node_data[get_key(edge.source)] = edge.source
                  /\ node_data[get_key(edge.target)] = edge.target

----------------------------------------------------------------------------
(* Further claims on the topology analysis, checked under Spec *)

\* C26: in a graph in which Start has exactly one outgoing edge, the last common
\* ancestor computed for a node with indegree > 1 and two or more simple paths from
\* Start is never Start itself: the assertion 'Last common ancestor should always be at
\* least the first decision node' never fails.
C26_LcaNeverStart ==
    (Built /\ Len(OutEdges(edges, Start)) = 1) =>
        /\ err # AssertLcaNotStart
        /\ \A c \in 1..Len(lca_calls) :
              Len(lca_calls[c][2]) >= 2 => lca_calls[c][3] # Some(Start)

\* the analysis has computed the ancestor of a node from two or more paths in a graph
\* whose Start has one outgoing edge
C26_Witness ==
    /\ RenderDone
    /\ Len(OutEdges(edges, Start)) = 1
    /\ \E c \in 1..Len(lca_calls) : Len(lca_calls[c][2]) >= 2 /\ ~IsNone(lca_calls[c][3])

\* the paths with the r-th one moved to the end, where paths.pop() takes the reference
MoveLast(paths, r) ==
    SubSeq(paths, 1, r - 1) \o SubSeq(paths, r + 1, Len(paths)) \o <<paths[r]>>

\* C27: the node _find_last_common_ancestor returns does not depend on which of the
\* simple paths from Start to the target is taken as the reference path, nor on the
\* order of the paths: every choice gives the ancestor that was computed.
C27_ReferenceIndependent ==
    \A c \in 1..Len(lca_calls) :
        LET paths == lca_calls[c][2]
        IN  \A r \in 1..Len(paths) :
                /\ _find_last_common_ancestor(MoveLast(paths, r)).node = lca_calls[c][3]
                /\ _find_last_common_ancestor(Reverse(MoveLast(paths, r))).node = lca_calls[c][3]

\* an ancestor has been computed from paths that reach the target over different nodes
C27_Witness ==
    /\ RenderDone
    /\ \E c \in 1..Len(lca_calls) :
          LET paths == lca_calls[c][2]
          IN  /\ Len(paths) >= 2
              /\ ~IsNone(lca_calls[c][3])
              /\ paths[1][Len(paths[1]) - 1] # paths[2][Len(paths[2]) - 1]

----------------------------------------------------------------------------
(* C28 *)

\* the nodes of the graph that lie on a directed cycle of two nodes, each of the two with
\* at least two simple paths from Start
OnCycle ==
    { e \in {edges[i] : i \in 1..Len(edges)} :
        /\ \E b \in {edges[i] : i \in 1..Len(edges)} :
               b.source = e.target /\ b.target = e.source
        /\ Len(all_simple_paths(edges, Start, e.source)) >= 2
        /\ Len(all_simple_paths(edges, Start, e.target)) >= 2 }

\* C28: the recursion of the block renderer terminates for every graph that passed the
\* topology analysis, cyclic graphs included: convert_graph_to_plantuml returns its text
\* or raises one of its own errors, and the nesting of _convert_node_to_plantuml never
\* reaches the depth at which the interpreter gives up
C28_RecursionTerminates == RenderDone => err # RecursionError

\* a graph with such a cycle has passed the analysis and has been rendered
C28_Witness == pc = "rendered" /\ OnCycle # {}

----------------------------------------------------------------------------
(* C29, checked under SpecWrap *)

\* C29: _split_string terminates for every text and every max_length >= 1: each
\* iteration of its loop leaves a remaining text strictly shorter than the one it
\* started with, also when the split index is 0, so the loop runs at most as many times
\* as the text has characters.
C29_LoopShortens ==
    [][(pc = "splitting" /\ pc' = "splitting" /\ Len(parts') = Len(parts) + 1) =>
           /\ max_line_length >= 1
           /\ Len(input_string') < Len(input_string)
           /\ Len(parts') + Len(input_string') <= Len(label_text)]_vars

\* an iteration has split at index 0: the text it started with began with a space or a
\* line break
C29_Witness ==
    /\ pc = "splitting"
    /\ Len(parts) = 1
    /\ split_index = 0
    /\ Len(label_text) > max_line_length
    /\ label_text[1] \in {Space, LineBreak}

----------------------------------------------------------------------------
(* C30, checked under SpecDot *)

\* _STEP_NUMBER_REGEX, ^\d+\*?$: one or more digits, then at most one star
MatchesStepNumberRegex(s) ==
    LET digits == IF s # <<>> /\ s[Len(s)] = "*" THEN SubSeq(s, 1, Len(s) - 1) ELSE s
    IN  IsIntLiteral(digits)

\* C30: the computation of the instruction ranges and of the cluster members completes
\* without a conversion error for every graph whose step numbers match ^\d+\*?$ (starred
\* step numbers such as 3* included) and every instruction whose first affected step is
\* such a step number.
C30_NoConversionError ==
    (/\ DotDone
     /\ \A node \in SteppedNodes :
            MatchesStepNumberRegex(Val(_get_step_number_from_node(node_data, node)))
     /\ \A i \in 1..Len(multi_step_instructions) :
            MatchesStepNumberRegex(multi_step_instructions[i].first_step_number_affected))
    => err # ValueErrorInt

====
